---- MODULE Spec2Model ----
(***************************************************************************)
(* The MerkleTree class of question2.py, question3.py, question5.py and    *)
(* question6.py: one object holding `leaves` and `tree`, and the methods   *)
(* the four files define on it.                                            *)
(*                                                                         *)
(* Strings.  A Python str is modelled as a sequence of symbols.  A symbol  *)
(* is either a plain character or one whole SHA-256 hex digest (64         *)
(* characters taken as a unit); a digest symbol carries the string that    *)
(* was hashed, so the hash is collision-free: two digests are equal        *)
(* exactly when the hashed strings are equal.  `left + right` of the       *)
(* source is sequence concatenation, so the concatenation of two digests   *)
(* is the two-symbol string a caller can also pass as a text item.         *)
(*                                                                         *)
(* Items are text.  The dict branch of question6.py's _hash_data           *)
(* (json.dumps with sort_keys) only chooses the bytes that are hashed and  *)
(* is not modelled.                                                        *)
(***************************************************************************)
EXTENDS Integers, Sequences, FiniteSets

\* Largest number of items passed to the constructor.
MaxLeaves == 5

\* A one-character text item.
Chr(c) == << [k |-> c, pre |-> <<>>] >>

\* hashlib.sha256(data).hexdigest() of a str (or of its bytes)
hash_data(data) == << [k |-> "h", pre |-> data] >>

\* A text item whose characters are two hex digests, one after the other.
TwoHashes == hash_data(Chr("a")) \o hash_data(Chr("a"))

\* The items callers build and update the tree with.
Items == { Chr("a"), Chr("b") }

\* The items callers ask verify_proof about.
Candidates == Items \cup { TwoHashes }

\* What a method hands back: a value, None, or a raised exception.
Ret(v) == [kind |-> "value", val |-> v]
None == [kind |-> "None", val |-> <<>>]
Raise(e) == [kind |-> e, val |-> <<>>]

VARIABLES
    items,   \* data_list, with the new_value of each update_leaf put in place
    leaves,  \* self.leaves
    tree,    \* self.tree
    op       \* the last call made on the object and what it returned

vars == <<items, leaves, tree, op>>

\* next_level with the loop stopping before an unpaired last node.
next_level_dropping_last(current_level) ==
    [j \in 1..(Len(current_level) \div 2) |->
        hash_data(current_level[2 * j - 1] \o current_level[2 * j])]

\* One pass of the for loop of _build_tree: the parents of current_level.
next_level(current_level) ==
    [j \in 1..((Len(current_level) + 1) \div 2) |->
        LET i == 2 * (j - 1)
            left == current_level[i + 1]
            right == IF i + 1 < Len(current_level) THEN current_level[i + 2] ELSE left
        IN hash_data(left \o right)]

RECURSIVE build_from(_, _)
\* The while loop of _build_tree.
build_from(t, current_level) ==
    IF Len(current_level) > 1
    THEN build_from(Append(t, next_level(current_level)), next_level(current_level))
    ELSE t

build_tree(lvs) == build_from(<<lvs>>, lvs)

\* self.tree[-1][0] if self.tree else None
get_root(t) ==
    IF t # <<>>
    THEN IF t[Len(t)] # <<>> THEN Ret(t[Len(t)][1]) ELSE Raise("IndexError")
    ELSE None

get_tree_height(t) == Len(t)

\* The sibling taken to be the next node, whatever the parity of index.
Xor1_next(index) == index + 1

\* index ^ 1 for index >= 0
Xor1(index) == IF index % 2 = 0 THEN index + 1 ELSE index - 1

RECURSIVE proof_from(_, _, _, _)
\* The for loop of get_proof, from `level` on.
proof_from(t, level, index, proof) ==
    IF level >= Len(t) - 1
    THEN proof
    ELSE LET sibling_index == Xor1(index)
             position == IF sibling_index < index THEN "left" ELSE "right"
         IN proof_from(t, level + 1, index \div 2,
                IF sibling_index < Len(t[level + 1])
                THEN Append(proof, [hash |-> t[level + 1][sibling_index + 1],
                                    position |-> position])
                ELSE proof)

get_proof(t, lvs, index) ==
    IF index < 0 \/ index >= Len(lvs)
    THEN Raise("IndexError")
    ELSE Ret(proof_from(t, 0, index, <<>>))

RECURSIVE verify_from_self_right(_, _, _)
\* verify_from with the 'right' branch combining current_hash with itself.
verify_from_self_right(current_hash, proof, k) ==
    IF k > Len(proof)
    THEN current_hash
    ELSE verify_from_self_right(
            IF proof[k].position = "left" THEN hash_data(proof[k].hash \o current_hash)
            ELSE IF proof[k].position = "right" THEN hash_data(current_hash \o current_hash)
            ELSE current_hash,
            proof, k + 1)

RECURSIVE verify_from(_, _, _)
\* The for loop of verify_proof, from step k on.
verify_from(current_hash, proof, k) ==
    IF k > Len(proof)
    THEN current_hash
    ELSE verify_from(
            IF proof[k].position = "left" THEN hash_data(proof[k].hash \o current_hash)
            ELSE IF proof[k].position = "right" THEN hash_data(current_hash \o proof[k].hash)
            ELSE current_hash,
            proof, k + 1)

\* `root` is what get_root returned: Ret(hash) or None.
verify_proof(leaf, proof, root) ==
    root.kind = "value" /\ verify_from(hash_data(leaf), proof, 1) = root.val

\* update_leaf without the `index < 0` test: a negative index counts from the
\* end of the list, as Python's list indexing does.
update_leaf_negative_index(t, lvs, index, new_value) ==
    IF index >= Len(lvs) \/ index < 0 - Len(lvs)
    THEN [leaves |-> lvs, tree |-> t, res |-> Raise("IndexError")]
    ELSE LET at == IF index < 0 THEN Len(lvs) + index + 1 ELSE index + 1
             new_leaves == [lvs EXCEPT ![at] = hash_data(new_value)]
         IN [leaves |-> new_leaves, tree |-> build_tree(new_leaves), res |-> None]

\* update_leaf without the rebuild: level 0 is the leaf list itself, the levels
\* above stay as they were.
update_leaf_no_rebuild(t, lvs, index, new_value) ==
    IF index < 0 \/ index >= Len(lvs)
    THEN [leaves |-> lvs, tree |-> t, res |-> Raise("IndexError")]
    ELSE LET new_leaves == [lvs EXCEPT ![index + 1] = hash_data(new_value)]
         IN [leaves |-> new_leaves, tree |-> [t EXCEPT ![1] = new_leaves], res |-> None]

\* update_leaf storing new_value itself instead of its hash.
update_leaf_unhashed(t, lvs, index, new_value) ==
    IF index < 0 \/ index >= Len(lvs)
    THEN [leaves |-> lvs, tree |-> t, res |-> Raise("IndexError")]
    ELSE LET new_leaves == [lvs EXCEPT ![index + 1] = new_value]
         IN [leaves |-> new_leaves, tree |-> build_tree(new_leaves), res |-> None]

\* update_leaf: the new self.leaves and self.tree, and what the call returned.
update_leaf(t, lvs, index, new_value) ==
    IF index < 0 \/ index >= Len(lvs)
    THEN [leaves |-> lvs, tree |-> t, res |-> Raise("IndexError")]
    ELSE LET new_leaves == [lvs EXCEPT ![index + 1] = hash_data(new_value)]
         IN [leaves |-> new_leaves, tree |-> build_tree(new_leaves), res |-> None]

find_sibling(t, lvs, index) ==
    IF index < 0 \/ index >= Len(lvs)
    THEN Raise("IndexError")
    ELSE IF Xor1(index) >= Len(t[1]) THEN None ELSE Ret(t[1][Xor1(index) + 1])

RECURSIVE check_from(_, _, _)
\* The two nested for loops of check_integrity, from node i of `level` on.
\* combine_hashes(None, None) calls hashlib.sha256(None): a TypeError.
check_from(t, level, i) ==
    IF level < 0
    THEN Ret(TRUE)
    ELSE IF i >= Len(t[level + 1])
    THEN check_from(t, level - 1, 0)
    ELSE LET lv == t[level + 1]
             hasLeft == i * 2 < Len(lv)
             hasRight == i * 2 + 1 < Len(lv)
             combined == IF hasRight THEN hash_data(lv[i * 2 + 1] \o lv[i * 2 + 2])
                         ELSE hash_data(lv[i * 2 + 1])
         IN IF ~hasLeft THEN Raise("TypeError")
            ELSE IF lv[i + 1] # combined THEN Ret(FALSE)
            ELSE check_from(t, level, i + 1)

check_integrity(t) == check_from(t, Len(t) - 2, 0)

\* Hashes a tampered proof step or root is replaced by.
TamperHashes == { hash_data(Chr("a")), hash_data(hash_data(Chr("a")) \o hash_data(Chr("b"))) }

\* A hash other than `orig`.
Tampered(orig) == CHOOSE h \in TamperHashes : h # orig

\* The indices callers pass: every valid one, -1 and the leaf count.
Indices == -1..Len(leaves)

Init ==
    /\ items \in UNION { [1..n -> Items] : n \in 0..MaxLeaves }
    /\ leaves = [i \in 1..Len(items) |-> hash_data(items[i])]
    /\ tree = build_tree(leaves)
    /\ op = [name |-> "init"]

GetRoot ==
    /\ op' = [name |-> "get_root", res |-> get_root(tree)]
    /\ UNCHANGED <<items, leaves, tree>>

GetTreeHeight ==
    /\ op' = [name |-> "get_tree_height", res |-> Ret(get_tree_height(tree))]
    /\ UNCHANGED <<items, leaves, tree>>

GetProof ==
    \E index \in Indices :
        /\ op' = [name |-> "get_proof", index |-> index,
                  res |-> get_proof(tree, leaves, index)]
        /\ UNCHANGED <<items, leaves, tree>>

\* verify_proof(leaf, proof, root) on the proof and root the tree gave for
\* `index`: any candidate item with the proof and root as they are, and the
\* item of `index` with the root or one step's hash replaced by another hash.
VerifyProof ==
    \E index \in 0..(Len(leaves) - 1) :
        LET proof0 == get_proof(tree, leaves, index).val
            root0 == get_root(tree)
        IN \/ \E leaf \in Candidates :
                /\ op' = [name |-> "verify_proof", index |-> index, leaf |-> leaf,
                          tamper |-> "none", proof |-> proof0, root |-> root0,
                          res0 |-> verify_proof(leaf, proof0, root0),
                          res |-> verify_proof(leaf, proof0, root0)]
                /\ UNCHANGED <<items, leaves, tree>>
           \/ /\ op' = [name |-> "verify_proof", index |-> index,
                         leaf |-> items[index + 1], tamper |-> "root",
                         proof |-> proof0, root |-> Ret(Tampered(root0.val)),
                         res0 |-> verify_proof(items[index + 1], proof0, root0),
                         res |-> verify_proof(items[index + 1], proof0,
                                              Ret(Tampered(root0.val)))]
              /\ UNCHANGED <<items, leaves, tree>>
           \/ \E k \in 1..Len(proof0) :
                LET proof == [proof0 EXCEPT ![k].hash = Tampered(proof0[k].hash)]
                IN /\ op' = [name |-> "verify_proof", index |-> index,
                             leaf |-> items[index + 1], tamper |-> "step",
                             proof |-> proof, root |-> root0,
                             res0 |-> verify_proof(items[index + 1], proof0, root0),
                             res |-> verify_proof(items[index + 1], proof, root0)]
                   /\ UNCHANGED <<items, leaves, tree>>

UpdateLeaf ==
    \E index \in Indices, new_value \in Items :
        LET r == update_leaf(tree, leaves, index, new_value)
        IN /\ leaves' = r.leaves
           /\ tree' = r.tree
           /\ items' = IF r.res = None /\ index + 1 \in DOMAIN items
                       THEN [items EXCEPT ![index + 1] = new_value] ELSE items
           /\ op' = [name |-> "update_leaf", index |-> index, value |-> new_value,
                     res |-> r.res]

\* test_immutability: get_root, update_leaf, get_root; the first exception ends it.
TestImmutability ==
    \E index \in Indices, new_value \in Items :
        LET original_root == get_root(tree)
            r == update_leaf(tree, leaves, index, new_value)
            updated_root == get_root(r.tree)
        IN IF original_root.kind = "IndexError"
           THEN /\ op' = [name |-> "test_immutability", index |-> index,
                          value |-> new_value, res |-> original_root]
                /\ UNCHANGED <<items, leaves, tree>>
           ELSE /\ leaves' = r.leaves
                /\ tree' = r.tree
                /\ items' = IF r.res = None /\ index + 1 \in DOMAIN items
                            THEN [items EXCEPT ![index + 1] = new_value] ELSE items
                /\ op' = [name |-> "test_immutability", index |-> index,
                          value |-> new_value,
                          res |-> IF r.res # None THEN r.res
                                  ELSE Ret(original_root = updated_root)]

FindSibling ==
    \E index \in Indices :
        /\ op' = [name |-> "find_sibling", index |-> index,
                  res |-> find_sibling(tree, leaves, index)]
        /\ UNCHANGED <<items, leaves, tree>>

CheckIntegrity ==
    /\ op' = [name |-> "check_integrity", res |-> check_integrity(tree)]
    /\ UNCHANGED <<items, leaves, tree>>

Next ==
    \/ GetRoot
    \/ GetTreeHeight
    \/ GetProof
    \/ VerifyProof
    \/ UpdateLeaf
    \/ TestImmutability
    \/ FindSibling
    \/ CheckIntegrity

Spec == Init /\ [][Next]_vars

(***************************************************************************)
(* Properties                                                              *)
(***************************************************************************)

\* The leaf hashes of an item sequence.
LeafHashes(its) == [i \in 1..Len(its) |-> hash_data(its[i])]

RECURSIVE Pow2(_)
Pow2(k) == IF k = 0 THEN 1 ELSE 2 * Pow2(k - 1)

\* ceil(log2(n)) for n >= 1
CeilLog2(n) == CHOOSE k \in 0..n : Pow2(k) >= n /\ (k = 0 \/ Pow2(k - 1) < n)

\* The position, at `level`, of the ancestor of leaf `index`.
Ancestor(index, level) == index \div Pow2(level)

\* The position paired with position a: 2k with 2k+1.
Partner(a) == IF a % 2 = 0 THEN a + 1 ELSE a - 1

\* The ancestor of leaf `index` at `level` is the unpaired last node of its level.
SelfDuplicated(index, level) == Partner(Ancestor(index, level)) >= Len(tree[level + 1])

\* No ancestor of leaf `index` below the root is paired with itself.
NoSelfDuplication(index) ==
    \A level \in 0..(Len(tree) - 2) : ~SelfDuplicated(index, level)

\* The last call was the round trip for `op.index`: the item of that index,
\* the proof and the root as the tree gave them.
IsRoundTrip ==
    /\ op.name = "verify_proof"
    /\ op.tamper = "none"
    /\ op.leaf = items[op.index + 1]

\* C1: for every tree built from a non-empty item sequence and every valid
\* index i, verify_proof(items[i], get_proof(i), get_root()) is true.
C1_ProofRoundTrip == IsRoundTrip => op.res = TRUE

\* C2: check_integrity returns true after construction and after every
\* successful update_leaf, for every leaf count.
C2_IntegrityHolds == op.name = "check_integrity" => op.res = Ret(TRUE)

\* C3: get_root on a tree built from no items returns None and raises nothing;
\* the tree is the single empty level.
C3_EmptyRootAbsent ==
    (op.name = "get_root" /\ Len(items) = 0) => (op.res = None /\ tree = << <<>> >>)

\* A call with an index outside [0, leaf count).
OutOfRangeCall ==
    /\ op.name \in {"get_proof", "update_leaf", "find_sibling"}
    /\ (op.index < 0 \/ op.index >= Len(leaves))

\* C4: get_proof, update_leaf and find_sibling with an index outside
\* [0, leaf count) raise IndexError and leave the leaves and every level of the
\* tree as they were.
C4_OutOfRangeFails ==
    [][OutOfRangeCall' => (op'.res = Raise("IndexError") /\ leaves' = leaves /\ tree' = tree)]_vars

C4_Witness ==
    /\ op.name = "update_leaf"
    /\ op.index = Len(leaves)
    /\ Len(leaves) > 0
    /\ op.res = Raise("IndexError")

\* C5: level 0 holds one hash per item in item order, each level above has
\* ceil(len / 2) nodes, the top level has one node when there is a leaf, and
\* the height is ceil(log2(n)) + 1 for n > 1 leaves and 1 for n <= 1.
C5_TreeShape ==
    /\ tree[1] = LeafHashes(items)
    /\ \A l \in 1..(Len(tree) - 1) : Len(tree[l + 1]) = (Len(tree[l]) + 1) \div 2
    /\ Len(items) >= 1 => Len(tree[Len(tree)]) = 1
    /\ get_tree_height(tree) = IF Len(items) > 1 THEN CeilLog2(Len(items)) + 1 ELSE 1
    /\ op.name = "get_tree_height" => op.res = Ret(Len(tree))

C5_Witness ==
    /\ op.name = "get_tree_height"
    /\ Len(items) = 5
    /\ op.res = Ret(4)

\* A successful update_leaf, made directly or by test_immutability.
Updated == op.name \in {"update_leaf", "test_immutability"} /\ op.res.kind \in {"None", "value"}

\* C6: on a tree of n >= 2 leaves, update_leaf to an item whose leaf hash
\* differs from the current one changes the root, and update_leaf to the
\* leaf's current value leaves the root and every level as they were.
C6_UpdateChangesRoot ==
    [][(Updated' /\ Len(leaves) >= 2) =>
        /\ leaves'[op'.index + 1] # leaves[op'.index + 1] => get_root(tree') # get_root(tree)
        /\ leaves'[op'.index + 1] = leaves[op'.index + 1] =>
                (get_root(tree') = get_root(tree) /\ tree' = tree)
        /\ op'.name = "test_immutability" =>
                (op'.res.val <=> leaves'[op'.index + 1] = leaves[op'.index + 1])]_vars

C6_Witness ==
    /\ op.name = "test_immutability"
    /\ Len(leaves) >= 2
    /\ op.res = Ret(FALSE)

\* C7: if verify_proof(item, proof, root) is true, it is false once the root
\* is replaced by a different hash, or once the hash of one proof step is.
C7_TamperDetected ==
    (op.name = "verify_proof" /\ op.tamper \in {"root", "step"} /\ op.res0 = TRUE)
        => op.res = FALSE

C7_Witness ==
    /\ op.name = "verify_proof"
    /\ op.tamper = "step"
    /\ op.res0 = TRUE
    /\ op.res = FALSE
    /\ Len(op.proof) >= 2

\* The item sequences a tree is built from.
ItemSeqs == UNION { [1..n -> Items \cup { TwoHashes }] : n \in 1..(MaxLeaves - 1) }

\* C8: two item sequences whose leaf hashes differ, in length or at any
\* position, never give the same root.
C8_RootCommits ==
    op.name = "get_root" =>
        \A other \in ItemSeqs :
            LeafHashes(other) # leaves => get_root(build_tree(LeafHashes(other))) # op.res

\* C9: the leaves and every level are those of a fresh construction on the
\* items with the replacements applied; level 0 is the leaf list and the leaf
\* count never changes.
C9_UpdateEqualsRebuild ==
    /\ [](/\ leaves = LeafHashes(items)
          /\ tree = build_tree(LeafHashes(items))
          /\ tree[1] = leaves)
    /\ [][Len(leaves') = Len(leaves) /\ Len(tree') = Len(tree)]_vars

C9_Witness ==
    /\ op.name = "update_leaf"
    /\ op.res = None
    /\ Len(leaves) = 5
    /\ items[op.index + 1] = op.value

\* The levels, below the top one, at which get_proof(index) finds a sibling.
PairedLevels(index) ==
    SelectSeq([l \in 1..(Len(tree) - 1) |-> l - 1], LAMBDA l : ~SelfDuplicated(index, l))

\* The step get_proof(index) emits at `level`.
StepAt(index, level) ==
    LET a == Ancestor(index, level)
    IN [hash |-> tree[level + 1][Partner(a) + 1],
        position |-> IF Partner(a) < a THEN "left" ELSE "right"]

\* C10: get_proof(i) emits one step per level below the top at which the
\* ancestor of leaf i has a sibling and none where it is the unpaired last
\* node; it has height - 1 steps when the leaf count is a power of two; and
\* the proof verifies against the root exactly when no ancestor of leaf i
\* below the root is paired with itself.
C10_ProofShape ==
    /\ (op.name = "get_proof" /\ op.res.kind = "value") =>
        /\ op.res.val = [k \in 1..Len(PairedLevels(op.index)) |->
                            StepAt(op.index, PairedLevels(op.index)[k])]
        /\ Pow2(CeilLog2(Len(leaves))) = Len(leaves) => Len(op.res.val) = Len(tree) - 1
    /\ IsRoundTrip => (op.res <=> NoSelfDuplication(op.index))

C10_Witness ==
    /\ IsRoundTrip
    /\ Len(leaves) = 5
    /\ op.index = 4
    /\ Len(op.proof) = 1
    /\ op.res = FALSE

\* C11: for every constructed tree, valid index i and candidate item x,
\* verify_proof(x, get_proof(i), get_root()) is true only if the leaf hash of
\* x is the leaf hash stored at index i.
C11_ProofBinding ==
    (op.name = "verify_proof" /\ op.tamper = "none" /\ op.res = TRUE)
        => hash_data(op.leaf) = leaves[op.index + 1]
====
